---- MODULE Spec2Model ----
(***************************************************************************)
(* Candle acquisition layer of Backend/binance_data.py and                 *)
(* Backend/utils/binance_connector.py.                                     *)
(*                                                                         *)
(* One call of one of the public operations is modelled per behaviour:     *)
(*   fn = "hist"    get_historical_klines_df(symbol, interval, start, end) *)
(*   fn = "recent"  get_klines(symbol, interval, limit)                    *)
(*   fn = "binance" BinanceConnector.get_klines(symbol, interval, lookback)*)
(*   fn = "symbol"  get_crypto_symbol(symbol)                              *)
(* The provider is the environment: every HTTP request is answered by any  *)
(* element of Responses.  A record is identified by its 'time' field (an   *)
(* integer); each page of a provider is in ascending time order, which is  *)
(* what the cursor update of the code ("last timestamp + 1") relies on.    *)
(* Timestamps are whole time units; the page cap (2000 in the code) is     *)
(* scaled down to `limit`.  The interval argument only selects the         *)
(* endpoint and the aggregate factor of the request parameters; the set of *)
(* possible answers does not depend on them, so they are not state.        *)
(***************************************************************************)
EXTENDS Integers, Sequences, FiniteSets

VARIABLES fn, pc, start_ts, end_ts, req_limit, current_ts, all_data, calls,
          log, result, outcome, base, symbol, crypto_symbol

vars == <<fn, pc, start_ts, end_ts, req_limit, current_ts, all_data, calls,
          log, result, outcome, base, symbol, crypto_symbol>>

(* ------------------------------ bounds --------------------------------- *)
MaxTs == 4
limit == 2
MaxCalls == 3
MaxLimit == 3
MaxSymLen == 4

(* ------------------------------ helpers -------------------------------- *)
Ts == 0..MaxTs
NoTime == 0 - 1
Last(s) == s[Len(s)]
Min(a, b) == IF a < b THEN a ELSE b

StrictlyIncreasing(s) == \A i \in 1..(Len(s) - 1) : s[i] < s[i + 1]

SeqsUpTo(S, n) == UNION {[1..k -> S] : k \in 1..n}

(* A non-empty 'Data' list of well-formed records, ascending in time.  The *)
(* provider may return one record more than asked (limit + 1).             *)
Pages == {s \in SeqsUpTo(Ts, limit + 1) : StrictlyIncreasing(s)}

(* What one HTTP request can produce.                                      *)
(*   exc       requests.get raises (connection failure, timeout)           *)
(*   bad_json  status 200, body is not JSON: response.json() raises        *)
(*   http_err  status_code # 200                                           *)
(*   err_body  status 200, body has Response = 'Error'                     *)
(*   ok        status 200, no error marker; data = <<>> stands for a       *)
(*             missing or empty 'Data'                                     *)
(*   bad_keys  status 200, 'Data' holds a record without the expected keys *)
Responses ==
    {[kind |-> "exc", data |-> <<>>], [kind |-> "bad_json", data |-> <<>>]}
    \cup [kind : {"http_err", "err_body", "ok"}, data : Pages \cup {<<>>}]
    \cup {[kind |-> "bad_keys", data |-> <<NoTime>>]}

(* ---------------------------- data frames ------------------------------ *)
CanonicalColumns == <<"open", "high", "low", "close", "volume">>
BinanceColumns ==
    <<"timestamp", "open", "high", "low", "close", "volume", "close_time",
      "quote_asset_volume", "number_of_trades", "taker_buy_base_asset_volume",
      "taker_buy_quote_asset_volume", "ignore", "time">>
EmptyDataFrame == [columns |-> <<>>, rows |-> <<>>]

FilterRange_NoUpper(rows, s, e) == SelectSeq(rows, LAMBDA t : t >= s)
FilterRange(rows, s, e) == SelectSeq(rows, LAMBDA t : t >= s /\ t <= e)

SeqHead(s, n) == IF n = 0 THEN <<>> ELSE SubSeq(s, 1, Min(n, Len(s)))
SeqTail(s, n) ==
    IF n = 0 THEN <<>> ELSE SubSeq(s, Len(s) - Min(n, Len(s)) + 1, Len(s))

Normalize(all, s, e) ==
    IF all = <<>> THEN EmptyDataFrame
    ELSE [columns |-> CanonicalColumns, rows |-> FilterRange(all, s, e)]

(* --------------------------- exception handlers ------------------------ *)
CaughtHist_RequestOnly(e) == e = "RequestException"
CaughtHist(e) == e \in {"RequestException", "ValueError", "KeyError"}
CaughtRecent(e) == e \in {"RequestException", "ValueError", "KeyError"}
CaughtBinance(e) == e \in {"RequestException", "ValueError", "KeyError"}

(* --------------------------- symbol translator ------------------------- *)
Letters == {"U", "S", "D", "T", "C", "b"}
Upper(c) == IF c = "b" THEN "B" ELSE c
StrUpper(s) == [i \in 1..Len(s) |-> Upper(s[i])]

USDT == <<"U", "S", "D", "T">>
DASH_USD == <<"-", "U", "S", "D">>
USD == <<"U", "S", "D">>

EndsWith(s, suf) ==
    /\ Len(s) >= Len(suf)
    /\ SubSeq(s, Len(s) - Len(suf) + 1, Len(s)) = suf

StartsWith(s, pre) == Len(s) >= Len(pre) /\ SubSeq(s, 1, Len(pre)) = pre

(* str.replace(old, ''): every non-overlapping occurrence, left to right.  *)
RECURSIVE RemoveAll(_, _)
RemoveAll(s, old) ==
    IF Len(s) < Len(old) THEN s
    ELSE IF StartsWith(s, old)
         THEN RemoveAll(SubSeq(s, Len(old) + 1, Len(s)), old)
         ELSE <<Head(s)>> \o RemoveAll(Tail(s), old)

get_crypto_symbol(sym) ==
    LET u == StrUpper(sym) IN
    IF EndsWith(u, USDT) THEN RemoveAll(u, USDT)
    ELSE IF EndsWith(u, DASH_USD) THEN RemoveAll(u, DASH_USD)
    ELSE IF EndsWith(u, USD) THEN RemoveAll(u, USD)
    ELSE u

Formats == {<<>>, USDT, DASH_USD, USD}

(* ------------------------------- Init ---------------------------------- *)
Init ==
    /\ fn \in {"hist", "recent", "binance", "symbol"}
    /\ pc = "start"
    /\ start_ts \in (IF fn = "hist" THEN Ts ELSE {0})
    /\ end_ts \in (IF fn = "hist" THEN Ts ELSE {0})
    /\ req_limit \in (IF fn \in {"recent", "binance"} THEN 0..MaxLimit ELSE {0})
    /\ base \in (IF fn = "symbol" THEN SeqsUpTo(Letters, MaxSymLen) ELSE {<<>>})
    /\ symbol = <<>>
    /\ crypto_symbol = <<>>
    /\ current_ts = 0
    /\ all_data = <<>>
    /\ calls = 0
    /\ log = <<>>
    /\ result = EmptyDataFrame
    /\ outcome = "none"

(* ----------------------- get_historical_klines_df ---------------------- *)
Return(df) ==
    /\ result' = df
    /\ outcome' = "returned"
    /\ pc' = "done"

(* An exception e raised inside a try block whose handler catches it or not *)
Raise(caught) ==
    /\ result' = EmptyDataFrame
    /\ outcome' = IF caught THEN "returned" ELSE "raised"
    /\ pc' = "done"

StopAfterPage_RangeOnly(candles, e) == Last(candles) >= e
StopAfterPage(candles, e) == Last(candles) >= e \/ Len(candles) < limit

NextCursor_NoAdvance(last_ts) == last_ts
NextCursor(last_ts) == last_ts + 1

(* Entry: all_data = [], current_ts = start_ts, first test of the loop.    *)
HistBegin ==
    /\ fn = "hist" /\ pc = "start"
    /\ current_ts' = start_ts
    /\ all_data' = <<>>
    /\ IF start_ts < end_ts
       THEN pc' = "call" /\ UNCHANGED <<result, outcome>>
       ELSE Return(Normalize(<<>>, start_ts, end_ts))
    /\ UNCHANGED <<fn, start_ts, end_ts, req_limit, calls, log, base, symbol,
                   crypto_symbol>>

(* One iteration of the while loop: the request, the checks on its answer, *)
(* the cursor update and the next loop test; on loop exit the rest of the  *)
(* function (normalisation and return) runs in the same step.              *)
HistPage(r) ==
    /\ fn = "hist" /\ pc = "call"
    /\ current_ts < end_ts
    /\ calls < MaxCalls
    /\ calls' = calls + 1
    /\ log' = Append(log, r)
    /\ CASE r.kind = "exc" ->
              /\ Raise(CaughtHist("RequestException"))
              /\ UNCHANGED <<all_data, current_ts>>
         [] r.kind = "bad_json" ->
              /\ Raise(CaughtHist("ValueError"))
              /\ UNCHANGED <<all_data, current_ts>>
         [] r.kind \in {"http_err", "err_body"} ->
              /\ Return(Normalize(all_data, start_ts, end_ts))
              /\ UNCHANGED <<all_data, current_ts>>
         [] r.kind = "ok" /\ r.data = <<>> ->
              /\ Return(Normalize(all_data, start_ts, end_ts))
              /\ UNCHANGED <<all_data, current_ts>>
         [] r.kind = "bad_keys" ->
              /\ all_data' = all_data \o r.data
              /\ Raise(CaughtHist("KeyError"))
              /\ UNCHANGED current_ts
         [] r.kind = "ok" /\ r.data # <<>> ->
              /\ all_data' = all_data \o r.data
              /\ IF StopAfterPage(r.data, end_ts)
                 THEN /\ Return(Normalize(all_data', start_ts, end_ts))
                      /\ UNCHANGED current_ts
                 ELSE /\ current_ts' = NextCursor(Last(r.data))
                      /\ IF current_ts' < end_ts
                         THEN pc' = "call" /\ UNCHANGED <<result, outcome>>
                         ELSE Return(Normalize(all_data', start_ts, end_ts))
    /\ UNCHANGED <<fn, start_ts, end_ts, req_limit, base, symbol, crypto_symbol>>

(* ------------------------------ get_klines ----------------------------- *)
get_klines(r) ==
    /\ fn = "recent" /\ pc = "start"
    /\ calls' = calls + 1
    /\ log' = Append(log, r)
    /\ CASE r.kind = "exc" -> Raise(CaughtRecent("RequestException"))
         [] r.kind = "bad_json" -> Raise(CaughtRecent("ValueError"))
         [] r.kind \in {"http_err", "err_body"} -> Return(EmptyDataFrame)
         [] r.kind = "ok" /\ r.data = <<>> -> Return(EmptyDataFrame)
         [] r.kind = "bad_keys" -> Raise(CaughtRecent("KeyError"))
         [] r.kind = "ok" /\ r.data # <<>> ->
              Return([columns |-> CanonicalColumns,
                      rows |-> SeqTail(r.data, req_limit)])
    /\ UNCHANGED <<fn, start_ts, end_ts, req_limit, current_ts, all_data, base,
                   symbol, crypto_symbol>>

(* ----------------------- BinanceConnector.get_klines ------------------- *)
BinanceGetKlines(r) ==
    /\ fn = "binance" /\ pc = "start"
    /\ calls' = calls + 1
    /\ log' = Append(log, r)
    /\ CASE r.kind = "exc" -> Raise(CaughtBinance("RequestException"))
         [] r.kind = "bad_json" -> Raise(CaughtBinance("ValueError"))
         [] r.kind = "http_err" -> Raise(CaughtBinance("RequestException"))
         [] r.kind \in {"err_body", "bad_keys"} ->
              Raise(CaughtBinance("ValueError"))
         [] r.kind = "ok" /\ r.data = <<>> ->
              \/ Return([columns |-> BinanceColumns, rows |-> <<>>])
              \/ Raise(CaughtBinance("ValueError"))
         [] r.kind = "ok" /\ r.data # <<>> ->
              Return([columns |-> BinanceColumns, rows |-> r.data])
    /\ UNCHANGED <<fn, start_ts, end_ts, req_limit, current_ts, all_data, base,
                   symbol, crypto_symbol>>

(* ---------------------------- get_crypto_symbol ------------------------ *)
(* The caller writes the instrument `base` in one of the accepted formats. *)
Translate(suffix) ==
    /\ fn = "symbol" /\ pc = "start"
    /\ symbol' = base \o suffix
    /\ crypto_symbol' = get_crypto_symbol(symbol')
    /\ pc' = "done"
    /\ outcome' = "returned"
    /\ UNCHANGED <<fn, start_ts, end_ts, req_limit, current_ts, all_data, calls,
                   log, result, base>>

Next ==
    \/ HistBegin
    \/ \E r \in Responses : HistPage(r)
    \/ \E r \in Responses : get_klines(r)
    \/ \E r \in Responses : BinanceGetKlines(r)
    \/ \E suffix \in Formats : Translate(suffix)

Spec == Init /\ [][Next]_vars

TypeOK ==
    /\ pc \in {"start", "call", "done"}
    /\ outcome \in {"none", "returned", "raised"}
    /\ calls \in 0..MaxCalls
    /\ calls = Len(log)

(* ============================== properties ============================= *)
Hist == fn = "hist"
HistDone == fn = "hist" /\ pc = "done"
FirstPage == log[1]
LastResponse == log[Len(log)]

(* C1: for start < end the series returned by get_historical_klines_df has *)
(* strictly increasing timestamps (no timestamp twice, every row later     *)
(* than the previous one), whatever pages the provider sent.               *)
C1_StrictlyIncreasing ==
    (HistDone /\ start_ts < end_ts) => StrictlyIncreasing(result.rows)

(* C2: a page that fails (requests.get raises, status # 200, error-shaped  *)
(* body) ends the loop without a retry and the function returns the        *)
(* records accumulated before the failure, restricted to [start, end].     *)
C2_PartialOnFailure ==
    (HistDone /\ log # <<>>
        /\ LastResponse.kind \in {"exc", "http_err", "err_body"})
    => result.rows = FilterRange(all_data, start_ts, end_ts)

(* C3: whatever the provider answers, get_historical_klines_df, get_klines *)
(* and BinanceConnector.get_klines return a series and no error reaches    *)
(* the caller.                                                             *)
C3_NeverRaises ==
    fn \in {"hist", "recent", "binance"} =>
        /\ outcome # "raised"
        /\ pc = "done" => outcome = "returned"

C3_Witness ==
    /\ HistDone /\ calls = 2
    /\ LastResponse.kind = "bad_keys"
    /\ outcome = "returned"

(* C4: every row returned by get_historical_klines_df has a timestamp t    *)
(* with start <= t <= end.                                                 *)
C4_WithinRange ==
    HistDone => \A i \in 1..Len(result.rows) :
                    start_ts <= result.rows[i] /\ result.rows[i] <= end_ts

C4_Witness ==
    /\ HistDone /\ result.rows # <<>>
    /\ \E i \in 1..Len(all_data) : all_data[i] > end_ts
    /\ \E i \in 1..Len(all_data) : all_data[i] < start_ts

(* C5: every series returned by get_historical_klines_df or get_klines,    *)
(* the empty one included, has the columns open, high, low, close, volume. *)
C5_CanonicalColumns ==
    (fn \in {"hist", "recent"} /\ pc = "done")
    => result.columns = CanonicalColumns

(* C6: when the first page is non-empty and shorter than the page cap,     *)
(* get_historical_klines_df issues exactly one request and the series is   *)
(* derived from that page alone.                                           *)
C6_SinglePage ==
    (Hist /\ log # <<>> /\ FirstPage.kind = "ok" /\ FirstPage.data # <<>>
        /\ Len(FirstPage.data) < limit)
    => /\ pc = "done"
       /\ calls = 1
       /\ all_data = FirstPage.data
       /\ result.columns = CanonicalColumns
       /\ result.rows = SelectSeq(FirstPage.data,
                                  LAMBDA t : start_ts <= t /\ t <= end_ts)

C6_Witness ==
    /\ HistDone /\ calls = 1
    /\ FirstPage.kind = "ok" /\ FirstPage.data # <<>>
    /\ Len(FirstPage.data) < limit
    /\ Last(FirstPage.data) < end_ts
    /\ result.rows = FirstPage.data /\ result.rows # <<>>

(* C7: get_crypto_symbol(B), (B + 'USDT'), (B + '-USD') and (B + 'USD')    *)
(* all return B upper-cased, for every non-empty base ticker B of letters: *)
(* exactly one trailing quote-currency suffix is removed and nothing else. *)
(* A base ticker is one that does not itself end in a quote-currency       *)
(* suffix (for a ticker that does, B and B' + 'USD' are the same input).   *)
BaseTicker(b) ==
    /\ b # <<>>
    /\ ~EndsWith(StrUpper(b), USD)
    /\ ~EndsWith(StrUpper(b), USDT)

C7_AllFormatsResolve ==
    (fn = "symbol" /\ pc = "done" /\ BaseTicker(base))
    => crypto_symbol = StrUpper(base)

(* C8: for limit > 0 and a successful response of n records, get_klines    *)
(* issues one request and returns the last min(n, limit) records in the    *)
(* provider's order.                                                       *)
C8_RecentTail ==
    (fn = "recent" /\ pc = "done" /\ req_limit > 0 /\ FirstPage.kind = "ok")
    => /\ calls = 1
       /\ LET d == FirstPage.data
              n == Len(d)
              m == IF n < req_limit THEN n ELSE req_limit
          IN /\ Len(result.rows) = m
             /\ \A i \in 1..m : result.rows[i] = d[n - m + i]

C8_Witness ==
    /\ fn = "recent" /\ pc = "done" /\ FirstPage.kind = "ok"
    /\ req_limit > 0 /\ Len(FirstPage.data) > req_limit
    /\ Len(result.rows) = req_limit

(* C9: for start < end the pagination loop exits after finitely many       *)
(* requests, whatever the provider answers.  In the form a finite run      *)
(* refutes: the loop runs while current_ts < end_ts from current_ts =      *)
(* start_ts, so a cursor that advances with every request allows at most   *)
(* end_ts - start_ts requests.                                             *)
C9_FinitelyManyRequests ==
    (Hist /\ start_ts < end_ts) => calls <= end_ts - start_ts

(* C10: after every page the stop conditions are evaluated in the order    *)
(* (1) error status or error body, (2) empty page, (3) last timestamp >=   *)
(* end_ts, (4) fewer records than the page cap; (1) and (2) add nothing to *)
(* the accumulation, (3) and (4) append the page and stop; when none holds *)
(* the page is appended, the cursor becomes last timestamp + 1 and the     *)
(* next request is issued.  NextRequest states when that request is made.  *)
PageStep == Hist /\ pc = "call" /\ calls' = calls + 1

StopOrder(NextRequest) ==
    LET r == log'[Len(log')]
        full == r.kind = "ok" /\ r.data # <<>>
        stop34 == Last(r.data) >= end_ts \/ Len(r.data) < limit
    IN /\ log' = Append(log, r)
       /\ (r.kind \in {"http_err", "err_body"} \/ (r.kind = "ok" /\ r.data = <<>>))
            => (all_data' = all_data /\ pc' = "done" /\ current_ts' = current_ts)
       /\ full => all_data' = all_data \o r.data
       /\ (full /\ stop34) => (pc' = "done" /\ current_ts' = current_ts)
       /\ (full /\ ~stop34) =>
            (current_ts' = Last(r.data) + 1 /\ NextRequest)

(* C10 as claimed: the next request is always issued.                      *)
C10_StopOrder_Original ==
    [][PageStep => StopOrder(pc' = "call")]_vars

(* C10 as amended: the next request is issued when the new cursor is still *)
(* below end_ts; with last timestamp + 1 = end_ts the loop exits.          *)
C10_StopOrder ==
    [][PageStep => StopOrder(IF current_ts' < end_ts THEN pc' = "call"
                                                     ELSE pc' = "done")]_vars

C10_Witness ==
    /\ HistDone /\ calls = 2
    /\ LastResponse.kind = "ok" /\ Len(LastResponse.data) >= limit
    /\ Last(LastResponse.data) + 1 = end_ts
    /\ current_ts = end_ts
    /\ all_data = log[1].data \o log[2].data
====
